---- MODULE Spec2Model ----
(***************************************************************************)
(* Model of damikdk/subtitler: the video-reference normaliser and the      *)
(* extraction orchestrator of subtitler/core/subtitle_extractor.py, and    *)
(* the HTTP endpoint of main.py that calls it.                             *)
(*                                                                         *)
(* A Python str is a sequence of one-character strings.  The alphabet of   *)
(* the inputs has no '%', '+', ';', '[', ']', tab or newline, so the       *)
(* percent-decoding of parse_qs, the params split and the bracket checks   *)
(* of urlparse have nothing to act on and are left out of the operators.   *)
(***************************************************************************)
EXTENDS Integers, Sequences, FiniteSets, TLC

(***************************************************************************)
(* Bounds of the model.                                                    *)
(***************************************************************************)
\* Longest candidate identifier the inputs are built from.
MaxIdLen == 12
\* Longest transcript (number of fragments) the fetcher returns.
MaxFragments == 2

(***************************************************************************)
(* subtitler/constants.py                                                  *)
(***************************************************************************)
YOUTUBE_VIDEO_ID_LENGTH == 11

VALID_YOUTUBE_DOMAINS ==
    { <<"y", "o", "u", "t", "u", "b", "e", ".", "c", "o", "m">>,
      <<"w", "w", "w", ".", "y", "o", "u", "t", "u", "b", "e", ".", "c", "o", "m">>,
      <<"y", "o", "u", "t", "u", ".", "b", "e">>,
      <<"m", ".", "y", "o", "u", "t", "u", "b", "e", ".", "c", "o", "m">> }

DEFAULT_LANGUAGES ==
    << "en", "fr", "es", "de", "ru", "zh", "it", "pt", "ja", "ar", "hi", "bn",
       "pa", "te", "ta", "ml", "mr", "gu", "kn", "or", "nl", "pl", "ro", "sv",
       "tr", "uk", "vi", "yo", "zu" >>

(***************************************************************************)
(* Python str methods, as the code uses them.                              *)
(***************************************************************************)
LowerSeq ==
    <<"a", "b", "c", "d", "e", "f", "g", "h", "i", "j", "k", "l", "m",
      "n", "o", "p", "q", "r", "s", "t", "u", "v", "w", "x", "y", "z">>
UpperSeq ==
    <<"A", "B", "C", "D", "E", "F", "G", "H", "I", "J", "K", "L", "M",
      "N", "O", "P", "Q", "R", "S", "T", "U", "V", "W", "X", "Y", "Z">>
DigitSeq == <<"0", "1", "2", "3", "4", "5", "6", "7", "8", "9">>

Range(f) == { f[i] : i \in DOMAIN f }
Letters == Range(LowerSeq) \cup Range(UpperSeq)
Alnum == Letters \cup Range(DigitSeq)
Whitespace == {" "}

\* str.isalnum(): every character alphanumeric AND at least one character.
isalnum(s) == Len(s) > 0 /\ \A i \in 1..Len(s) : s[i] \in Alnum

\* str.replace(c, ""): every occurrence of the character c removed.
replace(s, c) == SelectSeq(s, LAMBDA x : x # c)

\* str.lower()
LowerChar(c) ==
    IF c \in Range(UpperSeq)
    THEN LowerSeq[CHOOSE i \in 1..Len(UpperSeq) : UpperSeq[i] = c]
    ELSE c
lower(s) == [i \in 1..Len(s) |-> LowerChar(s[i])]

\* str.lstrip(chars) and str.strip()
RECURSIVE lstrip(_, _)
lstrip(s, chars) ==
    IF Len(s) > 0 /\ s[1] \in chars THEN lstrip(Tail(s), chars) ELSE s
RECURSIVE rstrip(_, _)
rstrip(s, chars) ==
    IF Len(s) > 0 /\ s[Len(s)] \in chars
    THEN rstrip(SubSeq(s, 1, Len(s) - 1), chars)
    ELSE s
strip(s) == rstrip(lstrip(s, Whitespace), Whitespace)

\* str.find(c) + 1: the first position of c in s, 0 when c is not in s.
find(s, c) ==
    IF \E i \in 1..Len(s) : s[i] = c
    THEN CHOOSE i \in 1..Len(s) : s[i] = c /\ \A j \in 1..(i - 1) : s[j] # c
    ELSE 0

\* str.split(sep) for a one-character separator.
RECURSIVE split(_, _)
split(s, sep) ==
    LET i == find(s, sep)
    IN  IF i = 0
        THEN << s >>
        ELSE << SubSeq(s, 1, i - 1) >> \o split(SubSeq(s, i + 1, Len(s)), sep)

(***************************************************************************)
(* urllib.parse.urlparse and parse_qs, as called by validate_youtube_url   *)
(* and extract_video_id.                                                   *)
(***************************************************************************)
SchemeChars == Alnum \cup {"+", "-", "."}

\* The first position >= from of one of "/?#", Len(s) + 1 when there is none.
NetlocEnd(s, from) ==
    IF \E i \in from..Len(s) : s[i] \in {"/", "?", "#"}
    THEN CHOOSE i \in from..Len(s) :
            /\ s[i] \in {"/", "?", "#"}
            /\ \A j \in from..(i - 1) : s[j] \notin {"/", "?", "#"}
    ELSE Len(s) + 1

\* urlsplit, step by step; each step yields << what it split off, the rest >>.
\* The scheme: the text before the first ':', when it starts with a letter
\* and holds scheme characters only.
split_scheme(url) ==
    LET colon == find(url, ":")
    IN  IF /\ colon > 1
           /\ url[1] \in Letters
           /\ \A j \in 1..(colon - 1) : url[j] \in SchemeChars
        THEN << lower(SubSeq(url, 1, colon - 1)), SubSeq(url, colon + 1, Len(url)) >>
        ELSE << << >>, url >>

\* The netloc: after a leading "//", up to the first of "/?#".
split_netloc(url) ==
    IF Len(url) >= 2 /\ url[1] = "/" /\ url[2] = "/"
    THEN << SubSeq(url, 3, NetlocEnd(url, 3) - 1),
            SubSeq(url, NetlocEnd(url, 3), Len(url)) >>
    ELSE << << >>, url >>

\* url.split(c, 1): << before the first c, after it >>; << url, "" >> without c.
split_once(url, c) ==
    LET i == find(url, c)
    IN  IF i > 0
        THEN << SubSeq(url, 1, i - 1), SubSeq(url, i + 1, Len(url)) >>
        ELSE << url, << >> >>

ParseResult(scheme, netloc, path_query, fragment) ==
    [ scheme |-> scheme, netloc |-> netloc, path |-> path_query[1],
      query |-> path_query[2], fragment |-> fragment ]

urlparse_fragment(scheme, netloc, url_fragment) ==
    ParseResult(scheme, netloc, split_once(url_fragment[1], "?"), url_fragment[2])

urlparse_netloc(scheme, netloc_rest) ==
    urlparse_fragment(scheme, netloc_rest[1], split_once(netloc_rest[2], "#"))

urlparse_scheme(scheme_rest) ==
    urlparse_netloc(scheme_rest[1], split_netloc(scheme_rest[2]))

urlparse(url) == urlparse_scheme(split_scheme(url))

\* urlsplit raises ValueError("Invalid IPv6 URL") for a netloc with one of
\* '[' and ']' and not the other.  No input here has both.
urlparse_raises(url) ==
    \E netloc \in { urlparse(url).netloc } :
        ("[" \in Range(netloc)) # ("]" \in Range(netloc))

\* parse_qs(qs)[name] with the default keep_blank_values=False: the values
\* of the fields "name=value" of qs, in order, fields without '=' and
\* fields with an empty value dropped; << >> when the key is absent.
\* s.replace("+", " "), applied to names and values before unquoting; no
\* input here holds a '%', so unquote leaves them as they are.
plus_to_space(s) == [ i \in 1..Len(s) |-> IF s[i] = "+" THEN " " ELSE s[i] ]
field_value(f) == plus_to_space(SubSeq(f, find(f, "=") + 1, Len(f)))
field_kept(f, name) ==
    /\ find(f, "=") > 0
    /\ Len(f) > find(f, "=")
    /\ plus_to_space(SubSeq(f, 1, find(f, "=") - 1)) = name
values_of(kept) == [ i \in 1..Len(kept) |-> field_value(kept[i]) ]
parse_qs(qs, name) ==
    values_of(SelectSeq(split(qs, "&"), LAMBDA f : field_kept(f, name)))

(***************************************************************************)
(* Exceptions and results.  A message is the sequence of the parts of its  *)
(* f-string: literal text, or an interpolated str.                         *)
(***************************************************************************)
Lit(text) == [ lit |-> text, val |-> << >> ]
Val(s) == [ lit |-> "", val |-> s ]

Return(v) == [ kind |-> "return", value |-> v, msg |-> << >> ]
Raise(type, msg) == [ kind |-> type, value |-> << >>, msg |-> msg ]
NoResult == [ kind |-> "none", value |-> << >>, msg |-> << >> ]

(***************************************************************************)
(* subtitler/core/subtitle_extractor.py: the reference normaliser.         *)
(***************************************************************************)
WatchPaths == { <<"/", "w", "a", "t", "c", "h">>,
                <<"/", "w", "a", "t", "c", "h", "/">> }
YoutuBe == <<"y", "o", "u", "t", "u", ".", "b", "e">>

\* Mutant: the length test forgotten.
is_video_id_any_length(video_id) ==
    isalnum(replace(replace(video_id, "_"), "-"))

\* Lines 126-129 and 191-194: the length and character test of an identifier
\* that may hold '_' and '-'.
is_video_id(video_id) ==
    /\ Len(video_id) = YOUTUBE_VIDEO_ID_LENGTH
    /\ isalnum(replace(replace(video_id, "_"), "-"))

\* Lines 122-131: query_params is parse_qs(parsed.query), v its entry "v".
validate_watch(path, v) ==
    IF path \in WatchPaths /\ v # << >>
    THEN is_video_id(v[1])
    ELSE FALSE

\* Mutant: the youtu.be form tested as the watch form is, '_' and '-' let in.
validate_parsed_symmetric(parsed) ==
    IF lower(parsed.netloc) \notin VALID_YOUTUBE_DOMAINS
    THEN FALSE
    ELSE IF lower(parsed.netloc) = YoutuBe
    THEN is_video_id(lstrip(parsed.path, {"/"}))
    ELSE validate_watch(parsed.path, parse_qs(parsed.query, << "v" >>))

\* Mutant: the domain test forgotten.
validate_parsed_any_domain(parsed) ==
    IF lower(parsed.netloc) = YoutuBe
    THEN /\ Len(lstrip(parsed.path, {"/"})) = YOUTUBE_VIDEO_ID_LENGTH
         /\ isalnum(lstrip(parsed.path, {"/"}))
    ELSE validate_watch(parsed.path, parse_qs(parsed.query, << "v" >>))

\* Lines 111-131, on the parsed URL.
validate_parsed(parsed) ==
    IF lower(parsed.netloc) \notin VALID_YOUTUBE_DOMAINS
    THEN FALSE
    ELSE IF lower(parsed.netloc) = YoutuBe
    THEN /\ Len(lstrip(parsed.path, {"/"})) = YOUTUBE_VIDEO_ID_LENGTH
         /\ isalnum(lstrip(parsed.path, {"/"}))
    ELSE validate_watch(parsed.path, parse_qs(parsed.query, << "v" >>))

\* Lines 105-134; the except clause of 133-134 turns what urlparse raised
\* into False.
validate_youtube_url(url) ==
    IF strip(url) = << >>
    THEN FALSE
    ELSE IF urlparse_raises(strip(url))
    THEN FALSE
    ELSE validate_parsed(urlparse(strip(url)))

validate_video_id(video_id) ==
    IF strip(video_id) = << >>
    THEN FALSE
    ELSE is_video_id(strip(video_id))

\* Lines 162-168
extract_watch(url, path, v) ==
    IF path \in WatchPaths /\ v # << >>
    THEN Return(v[1])
    ELSE Raise("VideoIdExtractionError",
               << Lit("Could not extract video ID from URL: "), Val(url) >>)

\* Lines 157-168, on the parsed URL.
extract_parsed(url, parsed) ==
    IF lower(parsed.netloc) = YoutuBe
    THEN Return(lstrip(parsed.path, {"/"}))
    ELSE extract_watch(url, parsed.path, parse_qs(parsed.query, << "v" >>))

\* Lines 151-174; the except clause of 172-174 wraps what urlparse raised.
extract_video_id(url) ==
    IF ~validate_youtube_url(url)
    THEN Raise("InvalidVideoInputError",
               << Lit("Invalid YouTube URL: "), Val(url) >>)
    ELSE IF urlparse_raises(strip(url))
    THEN Raise("VideoIdExtractionError",
               << Lit("Failed to extract video ID: "), Lit("Invalid IPv6 URL") >>)
    ELSE extract_parsed(url, urlparse(strip(url)))

\* Mutant: the URL form is not validated before extract_video_id is called.
_extract_video_id_from_input_unvalidated(video_input) ==
    IF validate_video_id(video_input)
    THEN Return(video_input)
    ELSE extract_video_id(video_input)

\* Lines 79-89
_extract_video_id_from_input(video_input) ==
    IF validate_youtube_url(video_input)
    THEN extract_video_id(video_input)
    ELSE IF validate_video_id(video_input)
    THEN Return(video_input)
    ELSE Raise("InvalidVideoInputError",
               << Lit("Invalid video input: "), Val(video_input),
                  Lit(". Must be a valid YouTube URL or 11-character video ID") >>)

(***************************************************************************)
(* The inputs: bare identifiers and URLs assembled from their parts.       *)
(***************************************************************************)
Rep(c, n) == [ i \in 1..n |-> c ]

IdChars == {"a", "Q", "7", "_", "-", "!"}
IdLens == {1} \cup ((YOUTUBE_VIDEO_ID_LENGTH - 1)..MaxIdLen)
\* A first character followed by a run of a second one.
BareIds ==
    { << >> } \cup
    { << c1 >> \o Rep(c2, n - 1) : c1 \in IdChars, c2 \in IdChars, n \in IdLens }

UrlIdPatterns ==
    { <<"a", "7">>, <<"a", "-">>, <<"_", "7">>, <<"_", "-">>, <<"Q", "!">> }
UrlIds ==
    { << >> } \cup
    { << p[1] >> \o Rep(p[2], n - 1) :
        p \in UrlIdPatterns, n \in (YOUTUBE_VIDEO_ID_LENGTH - 1)..MaxIdLen }

Prefixes == { <<"h", "t", "t", "p", "s", ":", "/", "/">>, << >> }
Netlocs ==
    VALID_YOUTUBE_DOMAINS \cup
    { <<"W", "W", "W", ".", "Y", "o", "u", "T", "u", "b", "e", ".", "c", "o", "m">>,
      <<"w", "w", "w", ".", "y", "o", "u", "t", "u", "b", "e", ".", "c", "o", "m",
        ":", "4", "4", "3">>,
      <<"v", "i", "m", "e", "o", ".", "c", "o", "m">>,
      <<"n", "o", "t", "y", "o", "u", "t", "u", "b", "e", ".", "c", "o", "m">>,
      <<"[", "y", "o", "u", "t", "u", ".", "b", "e">> }
Paths(id) ==
    { << >>, << "/" >> \o id, << "/", "/" >> \o id,
      <<"/", "w", "a", "t", "c", "h">>, <<"/", "w", "a", "t", "c", "h", "/">>,
      <<"/", "W", "a", "t", "c", "h">> }
OtherId == << "a" >> \o Rep("7", YOUTUBE_VIDEO_ID_LENGTH - 1)
Tails(id) ==
    { << >>,
      <<"?", "v", "=">>,
      <<"?", "v", "=">> \o id,
      <<"?", "t", "=", "1", "&", "v", "=">> \o id,
      <<"?", "v", "=", "&", "v", "=">> \o id,
      <<"?", "v", "=">> \o id \o <<"&", "v", "=">> \o OtherId,
      <<"?", "V", "=">> \o id,
      <<"?", "v", "=">> \o id \o <<"#", "x">>,
      <<"#", "?", "v", "=">> \o id,
      <<"?", "v", "=", "+">> \o id }
UrlsOf(id) ==
    { pre \o host \o path \o tail :
        pre \in Prefixes, host \in Netlocs, path \in Paths(id), tail \in Tails(id) }
Urls == UNION { UrlsOf(id) : id \in UrlIds }

\* Identifiers with and without blanks around them, and the URLs of OtherId
\* likewise.
Pads == { << >>, << " " >> }
PaddedUrls ==
    { lead \o u \o trail : lead \in Pads, u \in UrlsOf(OtherId), trail \in Pads }
Strings ==
    Urls \cup PaddedUrls
         \cup { lead \o id \o trail : lead \in Pads, id \in BareIds, trail \in Pads }

\* Python values at the boundary: a str, None or an int for video_input; None
\* or a list of language codes for languages.
PyStr(s) == [ type |-> "str", str |-> s ]
PyNone == [ type |-> "NoneType", str |-> << >> ]
PyInt == [ type |-> "int", str |-> << >> ]
VideoInputs == { PyStr(s) : s \in Strings } \cup { PyNone, PyInt }

PyList(l) == [ type |-> "list", list |-> l ]
NoLanguages == [ type |-> "NoneType", list |-> << >> ]
LanguageArgs ==
    { NoLanguages, PyList(<< >>), PyList(<< "es", "en", "fr" >>),
      PyList(<< "de", "de" >>) }

\* What the endpoint is sent: pydantic admits only a str as video_url.
HttpVideoUrls ==
    { PyStr(s) : s \in
        { << >>, << " " >>, OtherId, << " " >> \o OtherId,
          <<"h", "t", "t", "p", "s", ":", "/", "/",
            "y", "o", "u", "t", "u", ".", "b", "e", "/">> \o OtherId,
          <<"h", "t", "t", "p", "s", ":", "/", "/",
            "v", "i", "m", "e", "o", ".", "c", "o", "m", "/">> \o OtherId } }

(***************************************************************************)
(* The external fetcher, YouTubeTranscriptApi().fetch: it returns an       *)
(* ordered sequence of fragments (their text attributes) or raises.        *)
(***************************************************************************)
Texts == { << >>, << "a" >>, << "b", " ", "c" >> }
ErrorText == << "b", "o", "o", "m" >>

SeqsUpTo(S, n) == UNION { [ 1..k -> S ] : k \in 0..n }

Fragments(texts) == [ kind |-> "fragments", texts |-> texts, error |-> << >> ]
FetchRaises(type) == [ kind |-> type, texts |-> << >>, error |-> ErrorText ]
NotFetched == [ kind |-> "none", texts |-> << >>, error |-> << >> ]

FetcherReplies ==
    { Fragments(t) : t \in SeqsUpTo(Texts, MaxFragments) } \cup
    { FetchRaises(e) : e \in { "TranscriptsDisabled", "VideoUnavailable", "Exception" } }

(***************************************************************************)
(* subtitler/core/subtitle_extractor.py: extract_subtitles.                *)
(***************************************************************************)
\* Mutant: fragments with an empty text skipped.
join_skip_empty(sep, parts) ==
    LET kept == SelectSeq(parts, LAMBDA x : x # << >>)
        F[i \in 0..Len(kept)] ==
            IF i = 0 THEN << >>
            ELSE IF i = 1 THEN kept[1]
            ELSE F[i - 1] \o sep \o kept[i]
    IN  F[Len(kept)]

\* " ".join(parts)
RECURSIVE join(_, _)
join(sep, parts) ==
    IF Len(parts) = 0 THEN << >>
    ELSE IF Len(parts) = 1 THEN parts[1]
    ELSE parts[1] \o sep \o join(sep, Tail(parts))

\* Mutant: the default taken for None only, `if languages is None`.
resolve_languages_none_only(languages, default) ==
    IF languages.type = "list"
    THEN languages
    ELSE PyList(default)

\* languages or DEFAULT_LANGUAGES: the caller's list when it is truthy, else
\* the module's list, by reference and not copied.
resolve_languages(languages, default) ==
    IF languages.type = "list" /\ languages.list # << >>
    THEN languages
    ELSE PyList(default)

\* Mutant: the input tested for emptiness without being trimmed.
check_input_no_strip(video_input) ==
    IF video_input.type # "str" \/ video_input.str = << >>
    THEN Raise("InvalidVideoInputError",
               << Lit("Video input must be a non-empty string") >>)
    ELSE NoResult

\* Lines 41-43: the result of the guard, NoResult when it lets the call on.
check_input(video_input) ==
    IF video_input.type # "str" \/ strip(video_input.str) = << >>
    THEN Raise("InvalidVideoInputError",
               << Lit("Video input must be a non-empty string") >>)
    ELSE NoResult

\* Mutant: no handler for the exceptions that are neither of the two named.
handle_fetched_no_catch_all(video_id, fetched) ==
    CASE fetched.kind = "fragments" ->
            Return(join(<< " " >>, fetched.texts))
      [] fetched.kind = "TranscriptsDisabled" ->
            Raise("SubtitleExtractionError",
                  << Lit("Subtitles are disabled for video "), Val(video_id) >>)
      [] fetched.kind = "VideoUnavailable" ->
            Raise("SubtitleExtractionError",
                  << Lit("Video "), Val(video_id), Lit(" is unavailable") >>)
      [] OTHER ->
            Raise(fetched.kind, << Val(fetched.error) >>)

\* Lines 51-63: the join of the fragments, or the handler of what fetch raised.
handle_fetched(video_id, fetched) ==
    CASE fetched.kind = "fragments" ->
            Return(join(<< " " >>, fetched.texts))
      [] fetched.kind = "TranscriptsDisabled" ->
            Raise("SubtitleExtractionError",
                  << Lit("Subtitles are disabled for video "), Val(video_id) >>)
      [] fetched.kind = "VideoUnavailable" ->
            Raise("SubtitleExtractionError",
                  << Lit("Video "), Val(video_id), Lit(" is unavailable") >>)
      [] OTHER ->
            Raise("SubtitleExtractionError",
                  << Lit("Failed to extract subtitles for "), Val(video_id),
                     Lit(": "), Val(fetched.error) >>)

(***************************************************************************)
(* main.py: the endpoint.                                                  *)
(***************************************************************************)
API_KEY == "secret"
Credentials == { API_KEY, "wrong" }

HTTP_200_OK == 200
HTTP_400_BAD_REQUEST == 400
HTTP_401_UNAUTHORIZED == 401
HTTP_500_INTERNAL_SERVER_ERROR == 500

\* The parameters extract_subtitles declares, and the keywords the endpoint
\* passes in its call.
ExtractSubtitlesParams == { "video_input", "languages" }
EndpointKeywords == { "video_url", "languages" }

\* Python's binding of a call's keywords to the parameters of the callee.
bind_keywords(keywords, params) ==
    IF keywords \subseteq params
    THEN NoResult
    ELSE Raise("TypeError",
               << Lit("extract_subtitles() got an unexpected keyword argument '"),
                  Lit(CHOOSE k \in keywords \ params : TRUE), Lit("'") >>)

Response(status, detail, subtitles, headers) ==
    [ status |-> status, detail |-> detail, subtitles |-> subtitles,
      headers |-> headers ]
NoResponse == Response(0, << >>, << >>, { })

\* Lines 94-112: the response for what the call of extract_subtitles gave.
endpoint_response(outcome) ==
    CASE outcome.kind = "return" ->
            Response(HTTP_200_OK, << >>, outcome.value, { })
      [] outcome.kind = "InvalidVideoInputError" ->
            Response(HTTP_400_BAD_REQUEST, outcome.msg, << >>, { })
      [] outcome.kind = "SubtitleExtractionError" ->
            Response(HTTP_500_INTERNAL_SERVER_ERROR, outcome.msg, << >>, { })
      [] OTHER ->
            Response(HTTP_500_INTERNAL_SERVER_ERROR,
                     << Lit("Unexpected error: ") >> \o outcome.msg, << >>, { })

(***************************************************************************)
(* State: one invocation at a time, each independent of the last.          *)
(***************************************************************************)
VARIABLES
    pc,              \* where the invocation stands
    call,            \* who calls, and the arguments as passed
    video_id,        \* extract_subtitles: local video_id
    languages,       \* extract_subtitles: local languages, after line 46
    fetched,         \* what api.fetch returned or raised
    fetchLog,        \* the calls made to the fetcher, in order
    normalizeCalls,  \* the calls made to _extract_video_id_from_input
    outcome,         \* what extract_subtitles returned or raised
    response,        \* the HTTP response
    default_languages  \* the list object constants.DEFAULT_LANGUAGES names

vars == << pc, call, video_id, languages, fetched, fetchLog, normalizeCalls,
           outcome, response, default_languages >>

NoCall == [ caller |-> "none", credentials |-> "", video_input |-> PyNone,
            languages |-> NoLanguages ]

Init ==
    /\ pc = "idle"
    /\ call = NoCall
    /\ video_id = << >>
    /\ languages = NoLanguages
    /\ fetched = NotFetched
    /\ fetchLog = << >>
    /\ normalizeCalls = 0
    /\ outcome = NoResult
    /\ response = NoResponse
    /\ default_languages = DEFAULT_LANGUAGES

\* A caller of the library (the tests, a script) calls extract_subtitles.
CallExtractSubtitles ==
    /\ pc = "idle"
    /\ \E v \in VideoInputs, l \in LanguageArgs :
          call' = [ caller |-> "direct", credentials |-> "",
                    video_input |-> v, languages |-> l ]
    /\ pc' = "check"
    /\ UNCHANGED << video_id, languages, fetched, fetchLog, normalizeCalls,
                    outcome, response >>
    /\ UNCHANGED default_languages

\* A client posts to /extract-subtitles.
PostExtractSubtitles ==
    /\ pc = "idle"
    /\ \E c \in Credentials, v \in HttpVideoUrls, l \in LanguageArgs :
          call' = [ caller |-> "http", credentials |-> c,
                    video_input |-> v, languages |-> l ]
    /\ pc' = "verify"
    /\ UNCHANGED << video_id, languages, fetched, fetchLog, normalizeCalls,
                    outcome, response >>
    /\ UNCHANGED default_languages

\* Mutant: the token is not compared with API_KEY.
verify_api_key_unchecked ==
    /\ pc = "verify"
    /\ pc' = "endpoint"
    /\ UNCHANGED << call, video_id, languages, fetched, fetchLog,
                    normalizeCalls, outcome, response >>
    /\ UNCHANGED default_languages

\* main.py 52-60
verify_api_key ==
    /\ pc = "verify"
    /\ IF call.credentials # API_KEY
       THEN /\ response' = Response(HTTP_401_UNAUTHORIZED,
                                    << Lit("Invalid API key") >>, << >>,
                                    { << "WWW-Authenticate", "Bearer" >> })
            /\ pc' = "responded"
       ELSE /\ pc' = "endpoint"
            /\ UNCHANGED response
    /\ UNCHANGED << call, video_id, languages, fetched, fetchLog,
                    normalizeCalls, outcome >>
    /\ UNCHANGED default_languages

\* main.py 89-93: the call extract_subtitles(video_url=..., languages=...).
extract_subtitles_endpoint ==
    /\ pc = "endpoint"
    /\ \E bound \in { bind_keywords(EndpointKeywords, ExtractSubtitlesParams) } :
          IF bound = NoResult
          THEN /\ pc' = "check"
               /\ UNCHANGED outcome
          ELSE /\ pc' = "returned"
               /\ outcome' = bound
    /\ UNCHANGED << call, video_id, languages, fetched, fetchLog,
                    normalizeCalls, response >>
    /\ UNCHANGED default_languages

\* subtitle_extractor.py 41-43
CheckInput ==
    /\ pc = "check"
    /\ IF check_input(call.video_input) = NoResult
       THEN /\ pc' = "normalize"
            /\ UNCHANGED outcome
       ELSE /\ pc' = "returned"
            /\ outcome' = check_input(call.video_input)
    /\ UNCHANGED << call, video_id, languages, fetched, fetchLog,
                    normalizeCalls, response >>
    /\ UNCHANGED default_languages

\* Mutant: the reference handed to the normaliser as it came, not trimmed.
NormalizeInputUntrimmed ==
    /\ pc = "normalize"
    /\ normalizeCalls' = normalizeCalls + 1
    /\ \E r \in { _extract_video_id_from_input(call.video_input.str) } :
          IF r.kind = "return"
          THEN /\ video_id' = r.value
               /\ languages' = resolve_languages(call.languages, default_languages)
               /\ pc' = "fetch"
               /\ UNCHANGED outcome
          ELSE /\ outcome' = r
               /\ pc' = "returned"
               /\ UNCHANGED << video_id, languages >>
    /\ UNCHANGED << call, fetched, fetchLog, response >>
    /\ UNCHANGED default_languages

\* subtitle_extractor.py 45-46
NormalizeInput ==
    /\ pc = "normalize"
    /\ normalizeCalls' = normalizeCalls + 1
    /\ \E r \in { _extract_video_id_from_input(strip(call.video_input.str)) } :
          IF r.kind = "return"
          THEN /\ video_id' = r.value
               /\ languages' = resolve_languages(call.languages, default_languages)
               /\ pc' = "fetch"
               /\ UNCHANGED outcome
          ELSE /\ outcome' = r
               /\ pc' = "returned"
               /\ UNCHANGED << video_id, languages >>
    /\ UNCHANGED << call, fetched, fetchLog, response >>
    /\ UNCHANGED default_languages

\* Mutant: a fetch that raised is tried once more.
FetchWithRetry ==
    /\ pc = "fetch"
    /\ \E first \in FetcherReplies, second \in FetcherReplies :
          IF first.kind = "fragments"
          THEN /\ fetched' = first
               /\ fetchLog' = Append(fetchLog, [ video_id |-> video_id,
                                                 languages |-> languages.list ])
          ELSE /\ fetched' = second
               /\ fetchLog' = fetchLog \o
                     << [ video_id |-> video_id, languages |-> languages.list ],
                        [ video_id |-> video_id, languages |-> languages.list ] >>
    /\ pc' = "handle"
    /\ UNCHANGED << call, video_id, languages, normalizeCalls, outcome, response >>
    /\ UNCHANGED default_languages

\* subtitle_extractor.py 48-50: the one call of the fetcher, and its reply.
\* YouTubeTranscriptApi() takes no argument here and only builds the client.
\* The fetcher reads the list of languages it is handed and leaves it as is.
Fetch ==
    /\ pc = "fetch"
    /\ fetchLog' = Append(fetchLog, [ video_id |-> video_id,
                                      languages |-> languages.list ])
    /\ \E reply \in FetcherReplies : fetched' = reply
    /\ pc' = "handle"
    /\ UNCHANGED << call, video_id, languages, normalizeCalls, outcome, response >>
    /\ UNCHANGED default_languages

\* subtitle_extractor.py 51-63
HandleFetched ==
    /\ pc = "handle"
    /\ outcome' = handle_fetched(video_id, fetched)
    /\ pc' = "returned"
    /\ UNCHANGED << call, video_id, languages, fetched, fetchLog,
                    normalizeCalls, response >>
    /\ UNCHANGED default_languages

\* main.py 94-112
EndpointRespond ==
    /\ pc = "returned"
    /\ call.caller = "http"
    /\ response' = endpoint_response(outcome)
    /\ pc' = "responded"
    /\ UNCHANGED << call, video_id, languages, fetched, fetchLog,
                    normalizeCalls, outcome >>
    /\ UNCHANGED default_languages

\* The invocation is over; nothing of it is kept.
Done ==
    /\ (pc = "returned" /\ call.caller = "direct") \/ pc = "responded"
    /\ pc' = "idle"
    /\ call' = NoCall
    /\ video_id' = << >>
    /\ languages' = NoLanguages
    /\ fetched' = NotFetched
    /\ fetchLog' = << >>
    /\ normalizeCalls' = 0
    /\ outcome' = NoResult
    /\ response' = NoResponse
    /\ UNCHANGED default_languages

Next ==
    \/ CallExtractSubtitles
    \/ PostExtractSubtitles
    \/ verify_api_key
    \/ extract_subtitles_endpoint
    \/ CheckInput
    \/ NormalizeInput
    \/ Fetch
    \/ HandleFetched
    \/ EndpointRespond
    \/ Done

Spec == Init /\ [][Next]_vars
(***************************************************************************)
(* Vocabulary of the properties.                                           *)
(***************************************************************************)
\* The str handed to the normaliser: the trimmed video_input.
Stripped == strip(call.video_input.str)

\* The normaliser has been applied to the input of this invocation.
Normalized == normalizeCalls = 1

\* extract_subtitles was entered and has returned or raised.
Returned == pc \in { "returned", "responded" } /\ outcome.kind \notin { "none", "TypeError" }

Rejected == outcome.kind = "InvalidVideoInputError"

\* The normaliser gave id, and the invocation went on with it.
Accepted(id) == video_id = id /\ pc \in { "fetch", "handle", "returned", "responded" }
                    /\ ~Rejected

IdAlphabet == Alnum \cup { "_", "-" }
OnlyChars(s, chars) == \A i \in 1..Len(s) : s[i] \in chars

HasPrefix(s, p) == Len(s) >= Len(p) /\ SubSeq(s, 1, Len(p)) = p
AfterPrefix(s, p) == SubSeq(s, Len(p) + 1, Len(s))

(***************************************************************************)
(* C1                                                                      *)
(***************************************************************************)
\* C1: an invocation of extract_subtitles that fails with
\* InvalidVideoInputError has made no call to the fetcher, every other
\* invocation has made exactly one; the fetcher is called only once the
\* reference is normalised, and never a second time, whatever it replied.
FetchExactlyOnceUnlessInvalid ==
    /\ Len(fetchLog) <= 1
    /\ fetchLog # << >> => Normalized /\ ~Rejected
    /\ Returned => Len(fetchLog) = (IF Rejected THEN 0 ELSE 1)

\* The fetcher raised, and still it was called once only.
FetchRaisedOnceWitness ==
    /\ Returned
    /\ fetched.kind = "Exception"
    /\ Len(fetchLog) = 1

(***************************************************************************)
(* C2                                                                      *)
(***************************************************************************)
\* C2: every video ID passed to the fetcher is exactly 11 characters long,
\* each of them alphanumeric, '_' or '-', on the URL paths and on the
\* direct-ID path alike.
FetcherGetsCanonicalId ==
    \A i \in 1..Len(fetchLog) :
        /\ Len(fetchLog[i].video_id) = 11
        /\ OnlyChars(fetchLog[i].video_id, IdAlphabet)

\* The fetcher was called with an ID taken out of a URL.
FetchFromUrlWitness ==
    /\ Len(fetchLog) = 1
    /\ Stripped # fetchLog[1].video_id
    /\ "_" \in Range(fetchLog[1].video_id)

(***************************************************************************)
(* C3                                                                      *)
(***************************************************************************)
\* C3: for every 11-character string of letters, digits, '_' and '-',
\* validate_video_id succeeds and _extract_video_id_from_input returns the
\* string unchanged.
EveryIdShapedStringAccepted ==
    (Normalized /\ Len(Stripped) = 11 /\ OnlyChars(Stripped, IdAlphabet)) =>
        /\ validate_video_id(Stripped)
        /\ Accepted(Stripped)

(***************************************************************************)
(* C4                                                                      *)
(***************************************************************************)
HttpsYoutuBe ==
    <<"h", "t", "t", "p", "s", ":", "/", "/", "y", "o", "u", "t", "u", ".", "b", "e", "/">>

\* https://youtu.be/<id>, <id> one path segment: no '/', '?', '#', no blank.
SegmentChars == (IdAlphabet \cup IdChars) \ ({ "/", "?", "#" } \cup Whitespace)
OfYoutuBeForm(s) ==
    /\ HasPrefix(s, HttpsYoutuBe)
    /\ OnlyChars(AfterPrefix(s, HttpsYoutuBe), SegmentChars)

\* C4: an input https://youtu.be/<id> is normalised, to <id>, if and only if
\* <id> is exactly 11 alphanumeric characters; with a '_' or '-' in <id> it
\* is rejected with InvalidVideoInputError, direct-ID validation of the whole
\* string not accepting it either.
YoutuBeAcceptedIffAlnum11 ==
    (Normalized /\ OfYoutuBeForm(Stripped)) =>
        IF /\ Len(AfterPrefix(Stripped, HttpsYoutuBe)) = 11
           /\ OnlyChars(AfterPrefix(Stripped, HttpsYoutuBe), Alnum)
        THEN Accepted(AfterPrefix(Stripped, HttpsYoutuBe))
        ELSE Rejected /\ fetchLog = << >>

\* An 11-character <id> with a '-' in it was rejected in the youtu.be form.
YoutuBeDashRejectedWitness ==
    /\ Normalized
    /\ OfYoutuBeForm(Stripped)
    /\ Len(AfterPrefix(Stripped, HttpsYoutuBe)) = 11
    /\ OnlyChars(AfterPrefix(Stripped, HttpsYoutuBe), IdAlphabet)
    /\ "-" \in Range(AfterPrefix(Stripped, HttpsYoutuBe))
    /\ Rejected

(***************************************************************************)
(* C5                                                                      *)
(***************************************************************************)
\* ParseResult.hostname: the netloc without its port, in lower case (the
\* inputs hold no userinfo).
hostname(netloc) == lower(split_once(netloc, ":")[1])

YoutubeComHosts == VALID_YOUTUBE_DOMAINS \ { YoutuBe }

\* The values of the fields "name=..." of a query string as written, blank
\* ones too, in order.
raw_values(qs, name) ==
    values_of(SelectSeq(split(qs, "&"), LAMBDA f :
        find(f, "=") > 0 /\ SubSeq(f, 1, find(f, "=") - 1) = name))

AlnumWithoutPunctuation(s) ==
    /\ replace(replace(s, "_"), "-") # << >>
    /\ OnlyChars(replace(replace(s, "_"), "-"), Alnum)

\* C5: a URL whose host is youtube.com, www.youtube.com or m.youtube.com is
\* normalised if and only if its path is /watch or /watch/ and the first
\* value of its query parameter v is 11 characters, alphanumeric once '_'
\* and '-' are removed; the result is that value.  With v absent or empty
\* the URL is rejected with InvalidVideoInputError.
WatchUrlAcceptedIffValidV ==
    Normalized =>
        \A p \in { urlparse(Stripped) } :
            hostname(p.netloc) \in YoutubeComHosts =>
                \A v \in { raw_values(p.query, << "v" >>) } :
                    IF /\ p.path \in WatchPaths
                       /\ v # << >>
                       /\ Len(v[1]) = 11
                       /\ AlnumWithoutPunctuation(v[1])
                    THEN Accepted(v[1])
                    ELSE Rejected

(***************************************************************************)
(* C6                                                                      *)
(***************************************************************************)
\* C6: an input that parses as a URL with a non-empty host other than the
\* four recognised ones (case ignored) is rejected with
\* InvalidVideoInputError, whatever its path and query: neither the URL test
\* nor direct-ID validation of the whole string accepts it.
UnrecognizedHostRejected ==
    Normalized =>
        \A p \in { urlparse(Stripped) } :
            (hostname(p.netloc) # << >> /\ hostname(p.netloc) \notin VALID_YOUTUBE_DOMAINS)
                => Rejected /\ fetchLog = << >>

\* A watch URL of another host, its v a valid identifier, was rejected.
OtherHostWatchUrlWitness ==
    /\ Normalized
    /\ hostname(urlparse(Stripped).netloc) = <<"v", "i", "m", "e", "o", ".", "c", "o", "m">>
    /\ urlparse(Stripped).path \in WatchPaths
    /\ raw_values(urlparse(Stripped).query, << "v" >>) = << OtherId >>
    /\ Rejected

(***************************************************************************)
(* C7                                                                      *)
(***************************************************************************)
BlankInput ==
    \/ call.video_input.type # "str"
    \/ OnlyChars(call.video_input.str, Whitespace)

\* C7: extract_subtitles called with an empty string, a string of whitespace
\* or a value that is no string raises InvalidVideoInputError with the
\* message "Video input must be a non-empty string", and neither the
\* normaliser nor the fetcher has been called.
BlankInputRejectedFirst ==
    (call.caller # "none" /\ BlankInput) =>
        /\ pc \notin { "normalize", "fetch", "handle" }
        /\ normalizeCalls = 0
        /\ fetchLog = << >>
        /\ Returned =>
              outcome = Raise("InvalidVideoInputError",
                              << Lit("Video input must be a non-empty string") >>)

\* A string of whitespace was rejected by the guard.
WhitespaceRejectedWitness ==
    /\ Returned
    /\ call.video_input.type = "str"
    /\ call.video_input.str # << >>
    /\ OnlyChars(call.video_input.str, Whitespace)
    /\ Rejected
    /\ normalizeCalls = 0

(***************************************************************************)
(* C8                                                                      *)
(***************************************************************************)
\* C8: whatever the fetcher raises, extract_subtitles raises
\* SubtitleExtractionError with a message that holds the video ID passed to
\* the fetcher: "Subtitles are disabled ..." for TranscriptsDisabled,
\* "... is unavailable" for VideoUnavailable, and for any other exception a
\* message that ends with the text of that exception.
FetcherFailuresWrapped ==
    (Returned /\ fetched.kind \notin { "none", "fragments" }) =>
        /\ outcome.kind = "SubtitleExtractionError"
        /\ \E i \in 1..Len(outcome.msg) : outcome.msg[i] = Val(fetchLog[1].video_id)
        /\ fetched.kind = "TranscriptsDisabled" =>
              outcome.msg[1] = Lit("Subtitles are disabled for video ")
        /\ fetched.kind = "VideoUnavailable" =>
              outcome.msg[Len(outcome.msg)] = Lit(" is unavailable")
        /\ fetched.kind \notin { "TranscriptsDisabled", "VideoUnavailable" } =>
              outcome.msg[Len(outcome.msg)] = Val(fetched.error)

\* An exception of neither named kind was wrapped.
OtherExceptionWrappedWitness ==
    /\ Returned
    /\ fetched.kind = "Exception"
    /\ outcome.kind = "SubtitleExtractionError"
    /\ Val(ErrorText) \in Range(outcome.msg)

(***************************************************************************)
(* C9                                                                      *)
(***************************************************************************)
\* The number of characters before fragment k in the joined string.
RECURSIVE Offset(_, _)
Offset(texts, k) ==
    IF k = 1 THEN 0 ELSE Offset(texts, k - 1) + Len(texts[k - 1]) + 1

IsJoined(value, texts) ==
    IF texts = << >>
    THEN value = << >>
    ELSE /\ Len(value) = Offset(texts, Len(texts)) + Len(texts[Len(texts)])
         /\ \A k \in 1..Len(texts) :
               SubSeq(value, Offset(texts, k) + 1, Offset(texts, k) + Len(texts[k]))
                   = texts[k]
         /\ \A k \in 2..Len(texts) : value[Offset(texts, k)] = " "

\* C9: when the fetcher returns fragments, extract_subtitles returns their
\* texts in the order received with one space between neighbours, nothing
\* added, dropped or reordered; no fragments give the empty string.
SubtitlesAreJoinedFragments ==
    (Returned /\ fetched.kind = "fragments") =>
        /\ outcome.kind = "return"
        /\ IsJoined(outcome.value, fetched.texts)

\* Two fragments, the first of them empty, were joined.
JoinedTwoFragmentsWitness ==
    /\ Returned
    /\ fetched.kind = "fragments"
    /\ Len(fetched.texts) = 2
    /\ fetched.texts[1] = << >>
    /\ fetched.texts[2] # << >>
    /\ outcome.kind = "return"

(***************************************************************************)
(* C10                                                                     *)
(***************************************************************************)
\* C10: the response to an authenticated POST /extract-subtitles follows
\* what extract_subtitles does with the request's reference: 400 with the
\* message of InvalidVideoInputError as detail for a reference that cannot
\* be resolved, 500 with the message of SubtitleExtractionError as detail
\* when the fetcher fails, the joined subtitles when it succeeds.
EndpointFollowsCore ==
    (pc = "responded" /\ call.credentials = API_KEY) =>
        IF check_input(call.video_input) # NoResult
        THEN /\ response.status = 400
             /\ response.detail = check_input(call.video_input).msg
        ELSE \A r \in { _extract_video_id_from_input(Stripped) } :
                IF r.kind = "InvalidVideoInputError"
                THEN /\ response.status = 400
                     /\ response.detail = r.msg
                ELSE /\ Len(fetchLog) = 1
                     /\ fetched.kind = "fragments" =>
                           /\ response.status = 200
                           /\ IsJoined(response.subtitles, fetched.texts)
                     /\ fetched.kind # "fragments" =>
                           /\ response.status = 500
                           /\ response.detail = handle_fetched(r.value, fetched).msg

(***************************************************************************)
(* C11                                                                     *)
(***************************************************************************)
\* The request in hand came over HTTP with a token other than API_KEY.
BadToken == call.caller = "http" /\ call.credentials # API_KEY

Unauthorized ==
    Response(HTTP_401_UNAUTHORIZED, << Lit("Invalid API key") >>, << >>,
             { << "WWW-Authenticate", "Bearer" >> })

\* C11: a POST /extract-subtitles whose bearer token is not API_KEY is
\* answered 401 with the header WWW-Authenticate: Bearer, and for it neither
\* extract_subtitles nor the fetcher is invoked, whatever video_url it has:
\* the request stands at the verification or at its answer, nothing was
\* normalised, fetched or returned by extract_subtitles.
BadTokenIs401AndNothingRuns ==
    BadToken =>
        /\ pc \in { "verify", "responded" }
        /\ normalizeCalls = 0
        /\ fetchLog = << >>
        /\ fetched = NotFetched
        /\ outcome = NoResult
        /\ pc = "responded" => response = Unauthorized
        /\ pc = "verify" => response = NoResponse

\* A wrong token with a video_url the normaliser accepts is answered 401.
BadTokenValidUrlWitness ==
    /\ BadToken
    /\ pc = "responded"
    /\ response.status = HTTP_401_UNAUTHORIZED
    /\ << "WWW-Authenticate", "Bearer" >> \in response.headers
    /\ _extract_video_id_from_input(Stripped).kind = "return"

(***************************************************************************)
(* C12                                                                     *)
(***************************************************************************)
ErrorKinds == { "InvalidVideoInputError", "SubtitleExtractionError" }

\* The first part of the message of the outcome, Lit("") when it has none.
MessageHead == IF outcome.msg = << >> THEN Lit("") ELSE outcome.msg[1]

\* C12: an invocation of extract_subtitles that fails raises one of
\* InvalidVideoInputError and SubtitleExtractionError; VideoIdExtractionError
\* and the "Invalid YouTube URL" error of extract_video_id never come out of
\* extract_subtitles, and a reference the normaliser rejects reports
\* "Invalid video input: <the trimmed reference>...".
OnlyTheTwoErrorKinds ==
    /\ Returned => outcome.kind \in ErrorKinds \cup { "return" }
    /\ outcome.kind # "VideoIdExtractionError"
    /\ MessageHead # Lit("Invalid YouTube URL: ")
    /\ MessageHead # Lit("Could not extract video ID from URL: ")
    /\ MessageHead # Lit("Failed to extract video ID: ")
    /\ (Normalized /\ Rejected) =>
            /\ Len(outcome.msg) = 3
            /\ outcome.msg[1] = Lit("Invalid video input: ")
            /\ outcome.msg[2] = Val(Stripped)

\* A URL on which urlparse raises is rejected as any other reference is.
UnparsableUrlRejectedWitness ==
    /\ pc = "returned"
    /\ Normalized
    /\ Rejected
    /\ urlparse_raises(Stripped)
    /\ MessageHead = Lit("Invalid video input: ")

(***************************************************************************)
(* C13                                                                     *)
(***************************************************************************)
\* The caller passed a list with at least one language.
CallerGaveLanguages == call.languages.type = "list" /\ call.languages.list # << >>

\* C13: the languages the fetcher is called with are the caller's list, as
\* it is and in its order, when the caller gave a non-empty list, and the
\* built-in default list (en, fr, es, de, ru, zh, ...) when the caller gave
\* None or an empty list; the default list is the same after any number of
\* invocations.
FetcherGetsResolvedLanguages ==
    /\ default_languages = DEFAULT_LANGUAGES
    /\ SubSeq(default_languages, 1, 6) = << "en", "fr", "es", "de", "ru", "zh" >>
    /\ \A i \in 1..Len(fetchLog) :
          fetchLog[i].languages =
              IF CallerGaveLanguages THEN call.languages.list ELSE DEFAULT_LANGUAGES

\* The caller gave an empty list and the fetcher was handed the default.
EmptyListGetsDefaultWitness ==
    /\ call.languages = PyList(<< >>)
    /\ Len(fetchLog) = 1
    /\ fetchLog[1].languages = DEFAULT_LANGUAGES

(***************************************************************************)
(* C14                                                                     *)
(***************************************************************************)
\* Lines 41-45 as a function of video_input: the error extract_subtitles
\* raises before the fetch, or the identifier it goes to the fetcher with.
before_fetch(video_input) ==
    IF check_input(video_input) # NoResult
    THEN check_input(video_input)
    ELSE _extract_video_id_from_input(strip(video_input.str))

Surrounded(s) == s # << >> /\ (s[1] \in Whitespace \/ s[Len(s)] \in Whitespace)

\* C14: blanks around the reference do not change the outcome.  With raw the
\* str of the invocation in hand, extract_subtitles(trim(raw)) fails before
\* the fetch with the error kind this invocation failed with, or goes to the
\* fetcher with the identifier this invocation went with; the normaliser
\* judged the trimmed string, and the identifier handed to the fetcher has
\* no blank at either end.
TrimmingKeepsOutcome ==
    (/\ call.caller = "direct"
     /\ call.video_input.type = "str"
     /\ pc \in { "fetch", "handle", "returned" }) =>
        \A trimmed \in { before_fetch(PyStr(Stripped)) } :
            /\ Rejected => trimmed.kind = outcome.kind /\ trimmed.msg = outcome.msg
            /\ ~Rejected => trimmed = Return(video_id)
            /\ (Normalized /\ Rejected) => outcome.msg[2] = Val(Stripped)
            /\ \A i \in 1..Len(fetchLog) :
                  /\ fetchLog[i].video_id = trimmed.value
                  /\ ~Surrounded(fetchLog[i].video_id)

\* A URL with a blank before and after it went to the fetcher.
PaddedUrlFetchedWitness ==
    /\ Surrounded(call.video_input.str)
    /\ call.video_input.str # Stripped
    /\ validate_youtube_url(Stripped)
    /\ Len(fetchLog) = 1
    /\ fetchLog[1].video_id = OtherId
====
